---- MODULE Spec2Model ----
(***************************************************************************)
(* Model of src/src/sagemaker_xgboost_container/training.py:               *)
(* main -> train -> {framework.modules.run_module | run_algorithm_mode}.   *)
(*                                                                         *)
(* The program is sequential; pc is the line of training.py about to run.  *)
(* os.environ holds, for the five variables of the training job (channels, *)
(* hosts, current host, model directory), what _env.write_env_vars wrote   *)
(* from training_environment.to_env_vars(); a variable that map lacks is   *)
(* not set.  The three file-path variables come with the container, and    *)
(* what the process finds there and in the files those paths name is drawn *)
(* where the code first reads it and recorded in environ / files.  Whether *)
(* an external call returns or raises is drawn at the call.                *)
(***************************************************************************)
EXTENDS Naturals, Sequences, FiniteSets, TLC

\* Longest host list carried by SM_HOSTS.
MaxHosts == 2

(***************************************************************************)
(* Python values                                                           *)
(***************************************************************************)
None == [t |-> "None"]
Str(s) == [t |-> "str", s |-> s]
List(l) == [t |-> "list", items |-> l]
IsNone(x) == x.t = "None"

\* dict: a function from keys to values
EmptyDict == [k \in {} |-> None]

\* dict.pop(key, default): the value removed (or the default) and the dict left
DictPop(d, key, default) ==
  [value |-> IF key \in DOMAIN d THEN d[key] ELSE default,
   dict  |-> [k \in DOMAIN d \ {key} |-> d[k]]]

(***************************************************************************)
(* Names the code takes from sm_env_constants and mlflow_constants         *)
(***************************************************************************)
SM_INPUT_TRAINING_CONFIG_FILE == "SM_INPUT_TRAINING_CONFIG_FILE"
SM_INPUT_DATA_CONFIG_FILE == "SM_INPUT_DATA_CONFIG_FILE"
SM_CHECKPOINT_CONFIG_FILE == "SM_CHECKPOINT_CONFIG_FILE"
SM_CHANNEL_TRAIN == "SM_CHANNEL_TRAIN"
SM_CHANNEL_VALIDATION == "SM_CHANNEL_VALIDATION"
SM_HOSTS == "SM_HOSTS"
SM_CURRENT_HOST == "SM_CURRENT_HOST"
SM_MODEL_DIR == "SM_MODEL_DIR"

MLF_TRACKING_URI == "TRACKING_URI"
MLF_EXPERIMENT_NAME == "EXPERIMENT_NAME"
MLF_MODEL_NAME == "MODEL_NAME"

EnvNames ==
  {SM_INPUT_TRAINING_CONFIG_FILE, SM_INPUT_DATA_CONFIG_FILE, SM_CHECKPOINT_CONFIG_FILE,
   SM_CHANNEL_TRAIN, SM_CHANNEL_VALIDATION, SM_HOSTS, SM_CURRENT_HOST, SM_MODEL_DIR}
\* the variables _env.write_env_vars sets / the ones the container image sets
JobEnvNames == {SM_CHANNEL_TRAIN, SM_CHANNEL_VALIDATION, SM_HOSTS, SM_CURRENT_HOST, SM_MODEL_DIR}
PathEnvNames == EnvNames \ JobEnvNames
TrackingKeys == {MLF_TRACKING_URI, MLF_EXPERIMENT_NAME, MLF_MODEL_NAME}

(***************************************************************************)
(* The world outside the process                                           *)
(***************************************************************************)
\* a file-path variable or a file not read yet
Unread == [t |-> "unread"]
\* an environment variable that is not set
Unset == [t |-> "unset"]
\* a file that does not exist / whose content is not JSON / that holds a JSON object
Missing == [t |-> "missing"]
Malformed == [t |-> "malformed"]
Json(d) == [t |-> "json", doc |-> d]

HyperKeys == {"eta", "max_depth"}
ConfigKeys == TrackingKeys \cup HyperKeys
ValueOf(k) == Str("v_" \o k)
\* the training configurations: any subset of the tracking keys and hyperparameters
TrainConfigs == {[k \in S |-> ValueOf(k)] : S \in SUBSET ConfigKeys}
DataConfigs == {[k \in {"train"} |-> Str("channel")]}
CheckpointConfigs == {[k \in {"LocalPath"} |-> Str("/opt/ml/checkpoints")]}

Hosts == {"algo-1", "algo-2"}
HostLists == UNION {[1..n -> Hosts] : n \in 0..MaxHosts}

\* json.dumps of a list of strings, as a sequence of tokens
JsonDumps(l) ==
  <<"[">> \o
  [i \in 1..(IF Len(l) = 0 THEN 0 ELSE 2 * Len(l) - 1) |->
     IF i % 2 = 1 THEN l[(i + 1) \div 2] ELSE ","] \o
  <<"]">>

\* json.loads of a sequence of tokens: the list, or a JSONDecodeError
JsonLoads(text) ==
  IF Len(text) < 2 \/ text[1] # "[" \/ text[Len(text)] # "]"
  THEN [ok |-> FALSE]
  ELSE LET body == SubSeq(text, 2, Len(text) - 1) IN
       IF body = <<>> THEN [ok |-> TRUE, value |-> List(<<>>)]
       ELSE IF /\ Len(body) % 2 = 1
               /\ \A i \in 1..Len(body) :
                    IF i % 2 = 1 THEN body[i] \notin {"[", "]", ","} ELSE body[i] = ","
            THEN [ok |-> TRUE,
                  value |-> List([i \in 1..((Len(body) + 1) \div 2) |-> body[2 * i - 1]])]
            ELSE [ok |-> FALSE]

\* what SM_HOSTS may hold: the dump of a host list, or text that is not JSON
HostsTexts ==
  {JsonDumps(l) : l \in HostLists} \cup {<<"[", "algo-1">>, <<"[", "algo-1", ",", "]">>}

\* the values an environment variable may hold when set
EnvValues(name) ==
  IF name = SM_HOSTS THEN {[t |-> "text", toks |-> x] : x \in HostsTexts}
  ELSE IF name = SM_CURRENT_HOST THEN {Str(h) : h \in Hosts}
  ELSE {Str("/opt/ml/" \o name)}

(***************************************************************************)
(* State                                                                   *)
(***************************************************************************)
VARIABLES
  pc,                \* the line of training.py about to run
  user_entry_point,  \* training_environment.user_entry_point
  environ,           \* os.environ, as read so far
  files,             \* the three configuration files, as read so far
  env_persisted,     \* _env.write_env_vars has run
  open_files,        \* file handles held open
  train_config, tracking_uri, experiment_name, model_name,
  data_config, checkpoint_config,
  train_path, val_path, sm_hosts, sm_current_host, model_dir,
  mlflow,            \* the tracking client: endpoint, experiment, runs
  train_calls,       \* the calls of sagemaker_train, with their arguments
  module_calls,      \* the calls of framework.modules.run_module
  error,             \* the exception propagating, if any
  exit_status,       \* how the process ended
  log                \* the external effects, in order

locals == <<train_config, tracking_uri, experiment_name, model_name,
            data_config, checkpoint_config,
            train_path, val_path, sm_hosts, sm_current_host, model_dir>>
world == <<environ, files>>
effects == <<env_persisted, open_files, mlflow, train_calls, module_calls>>
vars == <<pc, user_entry_point, world, locals, effects, error, exit_status, log>>

Unbound == [t |-> "unbound"]
NoError == [t |-> "none"]
Error(type, line) == [t |-> "error", type |-> type, at |-> line]

FileNames == {"train", "data", "checkpoint"}
Exists == [t |-> "exists"]

Init ==
  /\ pc = "L118"
  /\ user_entry_point \in {None, Str("train.py")}
  /\ environ = [n \in EnvNames |-> IF n \in PathEnvNames THEN Unread ELSE Unset]
  /\ files = [f \in FileNames |-> Unread]
  /\ env_persisted = FALSE
  /\ open_files = {}
  /\ train_config = Unbound /\ tracking_uri = Unbound
  /\ experiment_name = Unbound /\ model_name = Unbound
  /\ data_config = Unbound /\ checkpoint_config = Unbound
  /\ train_path = Unbound /\ val_path = Unbound /\ sm_hosts = Unbound
  /\ sm_current_host = Unbound /\ model_dir = Unbound
  /\ mlflow = [uri |-> Unbound, experiment |-> Unbound,
               active_runs |-> 0, started |-> 0, ended |-> 0]
  /\ train_calls = <<>>
  /\ module_calls = <<>>
  /\ error = NoError
  /\ exit_status = "running"
  /\ log = <<>>

(***************************************************************************)
(* Control flow                                                            *)
(***************************************************************************)
\* the lines inside `with open(...) as f` (51) and inside `with mlflow.start_run()` (61)
InFileScope == {"L52", "L54", "L57", "L58", "L59", "L61"}
InRunScope == {"L62", "L65", "L72", "L73", "L75", "L76", "L78", "L80"}

\* mutant: the run is not scoped by `with`, so an exception inside it skips its end
Unwind_RunNotScoped(line) ==
  IF line \in InRunScope \cup InFileScope THEN "exit_f" ELSE "raised"

\* where an exception raised at `line` goes first: the innermost enclosing `with`
Unwind(line) ==
  IF line \in InRunScope THEN "exit_run"
  ELSE IF line \in InFileScope THEN "exit_f"
  ELSE "raised"

Raise(type) ==
  /\ error' = Error(type, pc)
  /\ pc' = Unwind(pc)

Goto(line) ==
  /\ pc' = line
  /\ UNCHANGED error

\* os.getenv(name): None when the variable is not set
Getenv(v) == IF v = Unset THEN None ELSE v

\* os.environ[name]: KeyError when the variable is not set
EnvironGetItem(v) ==
  IF v = Unset THEN [raises |-> TRUE, type |-> "KeyError"]
  ELSE [raises |-> FALSE, value |-> v]

\* os.environ.get(name): None when the variable is not set
EnvironGet(v) == IF v = Unset THEN None ELSE v

\* the process reads file-path variable `name` and finds v
ReadEnv(name, v) ==
  /\ environ[name] = Unread
  /\ v \in {Unset} \cup EnvValues(name)
  /\ environ' = [environ EXCEPT ![name] = v]

\* the maps training_environment.to_env_vars() may give, over the job's variables
EnvVarMaps == {ev \in [JobEnvNames -> UNION {{Unset} \cup EnvValues(n) : n \in JobEnvNames}] :
                 \A n \in JobEnvNames : ev[n] \in {Unset} \cup EnvValues(n)}

\* _env.write_env_vars(env_vars): os.environ[name] = value for each entry
write_env_vars(env, env_vars) ==
  [n \in DOMAIN env |->
     IF n \in DOMAIN env_vars /\ env_vars[n] # Unset THEN env_vars[n] ELSE env[n]]

\* the file at the path is looked up and found in state st
ReadFile(f, st) ==
  /\ files[f] \in {Unread, Exists}
  /\ files' = [files EXCEPT ![f] = st]

\* open(path, "r")
Open(path, st) ==
  IF IsNone(path) THEN [raises |-> TRUE, type |-> "TypeError"]
  ELSE IF st = Missing THEN [raises |-> TRUE, type |-> "FileNotFoundError"]
  ELSE [raises |-> FALSE]

\* mutant: content that does not parse is taken as an empty object
JsonLoad_Lenient(content) ==
  IF content = Malformed THEN [raises |-> FALSE, value |-> EmptyDict]
  ELSE [raises |-> FALSE, value |-> content.doc]

\* json.load(f)
JsonLoad(content) ==
  IF content = Malformed THEN [raises |-> TRUE, type |-> "JSONDecodeError"]
  ELSE [raises |-> FALSE, value |-> content.doc]

(***************************************************************************)
(* main and train                                                          *)
(***************************************************************************)
\* line 118: framework.training_env()
TrainingEnv ==
  /\ pc = "L118"
  /\ \E raises \in BOOLEAN : IF raises THEN Raise("EnvironmentError") ELSE Goto("L98")
  /\ UNCHANGED <<user_entry_point, world, locals, effects, exit_status, log>>

\* mutant: the test of line 98 inverted
Dispatch_Inverted(entry_point) == IF IsNone(entry_point) THEN "L100" ELSE "L105"

\* line 98: the branch train takes
Dispatch(entry_point) == IF ~IsNone(entry_point) THEN "L100" ELSE "L105"

TrainDispatch ==
  /\ pc = "L98"
  /\ Goto(Dispatch(user_entry_point))
  /\ UNCHANGED <<user_entry_point, world, locals, effects, exit_status, log>>

\* lines 100-102: the arguments train gives run_module
RunModuleArgs == [capture_error |-> FALSE]

RunModule ==
  /\ pc = "L100"
  /\ module_calls' = Append(module_calls, RunModuleArgs)
  /\ log' = Append(log, "run_module")
  /\ \E raises \in BOOLEAN : IF raises THEN Raise("ModuleError") ELSE Goto("L119")
  /\ UNCHANGED <<user_entry_point, world, locals, env_persisted, open_files, mlflow,
                 train_calls, exit_status>>

\* mutant: the orchestrator is started without persisting the environment
WriteEnvVars_Skipped ==
  /\ pc = "L105"
  /\ Goto("L51")
  /\ UNCHANGED <<user_entry_point, world, locals, effects, exit_status, log>>

\* line 105: _env.write_env_vars(training_environment.to_env_vars())
WriteEnvVars ==
  /\ pc = "L105"
  /\ \E env_vars \in EnvVarMaps : environ' = write_env_vars(environ, env_vars)
  /\ env_persisted' = TRUE
  /\ log' = Append(log, "write_env_vars")
  /\ Goto("L51")
  /\ UNCHANGED <<user_entry_point, files, locals, open_files, mlflow,
                 train_calls, module_calls, exit_status>>

(***************************************************************************)
(* run_algorithm_mode, lines 51-59                                         *)
(***************************************************************************)
\* line 51: with open(os.getenv(SM_INPUT_TRAINING_CONFIG_FILE), "r") as f
OpenTrainingConfig ==
  /\ pc = "L51"
  /\ \E v \in {Unset} \cup EnvValues(SM_INPUT_TRAINING_CONFIG_FILE), st \in {Missing, Exists} :
       /\ ReadEnv(SM_INPUT_TRAINING_CONFIG_FILE, v)
       /\ IF IsNone(Getenv(v)) THEN st = Missing /\ UNCHANGED files ELSE ReadFile("train", st)
       /\ LET r == Open(Getenv(v), st) IN
          IF r.raises
          THEN Raise(r.type) /\ UNCHANGED <<open_files, log>>
          ELSE Goto("L52") /\ open_files' = open_files \cup {"train"}
               /\ log' = Append(log, "open_train_config")
  /\ UNCHANGED <<user_entry_point, locals, env_persisted, mlflow,
                 train_calls, module_calls, exit_status>>

\* mutant: the with block of line 51 ends after json.load, closing f there
LoadTrainingConfig_ClosesFile ==
  /\ pc = "L52"
  /\ \E c \in {Malformed} \cup {Json(d) : d \in TrainConfigs} :
       /\ ReadFile("train", c)
       /\ LET r == JsonLoad(c) IN
          IF r.raises
          THEN Raise(r.type) /\ UNCHANGED train_config
          ELSE Goto("L54") /\ train_config' = r.value
  /\ log' = Append(log, "load_train_config")
  /\ open_files' = open_files \ {"train"}
  /\ UNCHANGED <<user_entry_point, environ, tracking_uri, experiment_name, model_name,
                 data_config, checkpoint_config, train_path, val_path, sm_hosts,
                 sm_current_host, model_dir, env_persisted, mlflow, train_calls,
                 module_calls, exit_status>>

\* line 52: train_config = json.load(f)
LoadTrainingConfig ==
  /\ pc = "L52"
  /\ \E c \in {Malformed} \cup {Json(d) : d \in TrainConfigs} :
       /\ ReadFile("train", c)
       /\ LET r == JsonLoad(c) IN
          IF r.raises
          THEN Raise(r.type) /\ UNCHANGED train_config
          ELSE Goto("L54") /\ train_config' = r.value
  /\ log' = Append(log, "load_train_config")
  /\ UNCHANGED <<user_entry_point, environ, tracking_uri, experiment_name, model_name,
                 data_config, checkpoint_config, train_path, val_path, sm_hosts,
                 sm_current_host, model_dir, effects, exit_status>>

\* mutant: the model name is read with get, which leaves the key in place
PopTracking_GetModelName(config) ==
  LET p1 == DictPop(config, MLF_TRACKING_URI, None)
      p2 == DictPop(p1.dict, MLF_EXPERIMENT_NAME, None)
      p3 == DictPop(p2.dict, MLF_MODEL_NAME, None)
  IN [tracking_uri |-> p1.value, experiment_name |-> p2.value,
      model_name |-> p3.value, train_config |-> p2.dict]

\* lines 54-56: the three train_config.pop(key, None)
PopTracking(config) ==
  LET p1 == DictPop(config, MLF_TRACKING_URI, None)
      p2 == DictPop(p1.dict, MLF_EXPERIMENT_NAME, None)
      p3 == DictPop(p2.dict, MLF_MODEL_NAME, None)
  IN [tracking_uri |-> p1.value, experiment_name |-> p2.value,
      model_name |-> p3.value, train_config |-> p3.dict]

PopTrackingKeys ==
  /\ pc = "L54"
  /\ LET r == PopTracking(train_config) IN
       /\ tracking_uri' = r.tracking_uri
       /\ experiment_name' = r.experiment_name
       /\ model_name' = r.model_name
       /\ train_config' = r.train_config
  /\ Goto("L57")
  /\ UNCHANGED <<user_entry_point, world, data_config, checkpoint_config, train_path,
                 val_path, sm_hosts, sm_current_host, model_dir, effects, exit_status, log>>

\* lines 109-115: validateMlFlowParameters(*args) raises iff some positional
\* argument is None; args is the tuple of positional arguments
validateMlFlowParameters(args) == \E i \in DOMAIN args : IsNone(args[i])

\* line 57: the call passes ONE positional argument, the list of the three values
ValidateArgs(uri, experiment, model) == <<List(<<uri, experiment, model>>)>>

\* mutant: the configuration files are read without the tracking scope around them
Validate_SkipsTracking ==
  /\ pc = "L57"
  /\ IF validateMlFlowParameters(ValidateArgs(tracking_uri, experiment_name, model_name))
     THEN Raise("UserError")
     ELSE Goto("L62")
  /\ UNCHANGED <<user_entry_point, world, locals, effects, exit_status, log>>

Validate ==
  /\ pc = "L57"
  /\ IF validateMlFlowParameters(ValidateArgs(tracking_uri, experiment_name, model_name))
     THEN Raise("UserError")
     ELSE Goto("L58")
  /\ UNCHANGED <<user_entry_point, world, locals, effects, exit_status, log>>

\* mutant: the endpoint is set from the wrong local
SetTrackingUri_WrongValue ==
  /\ pc = "L58"
  /\ \E raises \in BOOLEAN :
       IF raises THEN Raise("MlflowException") /\ UNCHANGED <<mlflow, log>>
       ELSE /\ Goto("L59")
            /\ mlflow' = [mlflow EXCEPT !.uri = experiment_name]
            /\ log' = Append(log, "set_tracking_uri")
  /\ UNCHANGED <<user_entry_point, world, locals, env_persisted, open_files,
                 train_calls, module_calls, exit_status>>

\* line 58: mlflow.set_tracking_uri(tracking_uri)
SetTrackingUri ==
  /\ pc = "L58"
  /\ \E raises \in BOOLEAN :
       IF raises THEN Raise("MlflowException") /\ UNCHANGED <<mlflow, log>>
       ELSE /\ Goto("L59")
            /\ mlflow' = [mlflow EXCEPT !.uri = tracking_uri]
            /\ log' = Append(log, "set_tracking_uri")
  /\ UNCHANGED <<user_entry_point, world, locals, env_persisted, open_files,
                 train_calls, module_calls, exit_status>>

\* line 59: mlflow.set_experiment(experiment_name)
SetExperiment ==
  /\ pc = "L59"
  /\ \E raises \in BOOLEAN :
       IF raises THEN Raise("MlflowException") /\ UNCHANGED <<mlflow, log>>
       ELSE /\ Goto("L61")
            /\ mlflow' = [mlflow EXCEPT !.experiment = experiment_name]
            /\ log' = Append(log, "set_experiment")
  /\ UNCHANGED <<user_entry_point, world, locals, env_persisted, open_files,
                 train_calls, module_calls, exit_status>>

(***************************************************************************)
(* run_algorithm_mode, lines 61-86: inside the tracking run                *)
(***************************************************************************)
\* mlflow.start_run() / the end of the run when its `with` block is left
BeginRun(m) == [m EXCEPT !.active_runs = @ + 1, !.started = @ + 1]
EndRun(m) == [m EXCEPT !.active_runs = @ - 1, !.ended = @ + 1]

\* mutant: the body of the with block runs without the run having been started
StartRun_NotEntered ==
  /\ pc = "L61"
  /\ Goto("L62")
  /\ UNCHANGED <<user_entry_point, world, locals, effects, exit_status, log>>

\* line 61: with mlflow.start_run()
StartRun ==
  /\ pc = "L61"
  /\ \E raises \in BOOLEAN :
       IF raises THEN Raise("MlflowException") /\ UNCHANGED <<mlflow, log>>
       ELSE /\ Goto("L62")
            /\ mlflow' = BeginRun(mlflow)
            /\ log' = Append(log, "start_run")
  /\ UNCHANGED <<user_entry_point, world, locals, env_persisted, open_files,
                 train_calls, module_calls, exit_status>>

\* lines 62-63: open the data configuration and json.load it
LoadData(path, st) ==
  LET o == Open(path, st) IN IF o.raises THEN o ELSE JsonLoad(st)

LoadDataConfig ==
  /\ pc = "L62"
  /\ \E v \in {Unset} \cup EnvValues(SM_INPUT_DATA_CONFIG_FILE),
        st \in {Missing, Malformed} \cup {Json(d) : d \in DataConfigs} :
       /\ ReadEnv(SM_INPUT_DATA_CONFIG_FILE, v)
       /\ IF IsNone(Getenv(v)) THEN st = Missing /\ UNCHANGED files ELSE ReadFile("data", st)
       /\ log' = IF IsNone(Getenv(v)) THEN log ELSE Append(log, "read_data_config")
       /\ LET r == LoadData(Getenv(v), st) IN
          IF r.raises
          THEN Raise(r.type) /\ UNCHANGED data_config
          ELSE Goto("L65") /\ data_config' = r.value
  /\ UNCHANGED <<user_entry_point, train_config, tracking_uri, experiment_name, model_name,
                 checkpoint_config, train_path, val_path, sm_hosts, sm_current_host,
                 model_dir, effects, exit_status>>

\* mutant: no os.path.exists test, the file is opened whether it exists or not
LoadCheckpoint_NoExistsTest(path, st) ==
  IF IsNone(path) THEN [raises |-> TRUE, type |-> "TypeError"]
  ELSE IF st = Missing THEN [raises |-> TRUE, type |-> "FileNotFoundError"]
  ELSE JsonLoad(st)

\* mutant: a checkpoint configuration that does not parse is taken as empty
LoadCheckpoint_SwallowMalformed(path, st) ==
  IF IsNone(path) THEN [raises |-> TRUE, type |-> "TypeError"]
  ELSE IF st \in {Missing, Malformed} THEN [raises |-> FALSE, value |-> EmptyDict]
  ELSE JsonLoad(st)

\* lines 65-70: os.path.exists(path) decides between json.load and {}
LoadCheckpoint(path, st) ==
  IF IsNone(path) THEN [raises |-> TRUE, type |-> "TypeError"]
  ELSE IF st = Missing THEN [raises |-> FALSE, value |-> EmptyDict]
  ELSE JsonLoad(st)

LoadCheckpointConfig ==
  /\ pc = "L65"
  /\ \E v \in {Unset} \cup EnvValues(SM_CHECKPOINT_CONFIG_FILE),
        st \in {Missing, Malformed} \cup {Json(d) : d \in CheckpointConfigs} :
       /\ ReadEnv(SM_CHECKPOINT_CONFIG_FILE, v)
       /\ IF IsNone(Getenv(v)) THEN st = Missing /\ UNCHANGED files
          ELSE ReadFile("checkpoint", st)
       /\ log' = IF IsNone(Getenv(v)) THEN log ELSE Append(log, "read_checkpoint_config")
       /\ LET r == LoadCheckpoint(Getenv(v), st) IN
          IF r.raises
          THEN Raise(r.type) /\ UNCHANGED checkpoint_config
          ELSE Goto("L72") /\ checkpoint_config' = r.value
  /\ UNCHANGED <<user_entry_point, train_config, tracking_uri, experiment_name, model_name,
                 data_config, train_path, val_path, sm_hosts, sm_current_host,
                 model_dir, effects, exit_status>>

\* mutant: the training channel is read with os.environ.get, as line 73 reads
LookupTrainPath_Get(v) == [raises |-> FALSE, value |-> EnvironGet(v)]

\* line 72: train_path = os.environ[SM_CHANNEL_TRAIN]
LookupTrainPath(v) == EnvironGetItem(v)

ResolveTrainPath ==
  /\ pc = "L72"
  /\ LET r == LookupTrainPath(environ[SM_CHANNEL_TRAIN]) IN
       IF r.raises
       THEN Raise(r.type) /\ UNCHANGED train_path
       ELSE Goto("L73") /\ train_path' = r.value
  /\ UNCHANGED <<user_entry_point, world, train_config, tracking_uri, experiment_name,
                 model_name, data_config, checkpoint_config, val_path, sm_hosts,
                 sm_current_host, model_dir, effects, exit_status, log>>

\* mutant: os.environ.get with an empty-string default
LookupValPath_EmptyDefault(v) == IF v = Unset THEN Str("") ELSE v

\* line 73: val_path = os.environ.get(SM_CHANNEL_VALIDATION)
LookupValPath(v) == EnvironGet(v)

ResolveValPath ==
  /\ pc = "L73"
  /\ val_path' = LookupValPath(environ[SM_CHANNEL_VALIDATION])
  /\ Goto("L75")
  /\ UNCHANGED <<user_entry_point, world, train_config, tracking_uri, experiment_name,
                 model_name, data_config, checkpoint_config, train_path, sm_hosts,
                 sm_current_host, model_dir, effects, exit_status, log>>

\* line 75: sm_hosts = json.loads(os.environ[SM_HOSTS])
LookupHosts(v) ==
  LET g == EnvironGetItem(v) IN
  IF g.raises THEN g
  ELSE LET j == JsonLoads(g.value.toks) IN
       IF j.ok THEN [raises |-> FALSE, value |-> j.value]
       ELSE [raises |-> TRUE, type |-> "JSONDecodeError"]

ResolveHosts ==
  /\ pc = "L75"
  /\ LET r == LookupHosts(environ[SM_HOSTS]) IN
       IF r.raises
       THEN Raise(r.type) /\ UNCHANGED sm_hosts
       ELSE Goto("L76") /\ sm_hosts' = r.value
  /\ UNCHANGED <<user_entry_point, world, train_config, tracking_uri, experiment_name,
                 model_name, data_config, checkpoint_config, train_path, val_path,
                 sm_current_host, model_dir, effects, exit_status, log>>

\* line 76: sm_current_host = os.environ[SM_CURRENT_HOST]
LookupCurrentHost(v) == EnvironGetItem(v)

ResolveCurrentHost ==
  /\ pc = "L76"
  /\ LET r == LookupCurrentHost(environ[SM_CURRENT_HOST]) IN
       IF r.raises
       THEN Raise(r.type) /\ UNCHANGED sm_current_host
       ELSE Goto("L78") /\ sm_current_host' = r.value
  /\ UNCHANGED <<user_entry_point, world, train_config, tracking_uri, experiment_name,
                 model_name, data_config, checkpoint_config, train_path, val_path,
                 sm_hosts, model_dir, effects, exit_status, log>>

\* line 78: model_dir = os.getenv(SM_MODEL_DIR)
LookupModelDir(v) == [raises |-> FALSE, value |-> Getenv(v)]

ResolveModelDir ==
  /\ pc = "L78"
  /\ LET r == LookupModelDir(environ[SM_MODEL_DIR]) IN
       IF r.raises
       THEN Raise(r.type) /\ UNCHANGED model_dir
       ELSE Goto("L80") /\ model_dir' = r.value
  /\ UNCHANGED <<user_entry_point, world, train_config, tracking_uri, experiment_name,
                 model_name, data_config, checkpoint_config, train_path, val_path,
                 sm_hosts, sm_current_host, effects, exit_status, log>>

\* lines 80-86: the arguments of sagemaker_train
TrainArgs ==
  [train_config |-> train_config, data_config |-> data_config,
   train_path |-> train_path, val_path |-> val_path, model_dir |-> model_dir,
   sm_hosts |-> sm_hosts, sm_current_host |-> sm_current_host,
   checkpoint_config |-> checkpoint_config,
   mlflowClient |-> mlflow, modelName |-> model_name]

SagemakerTrain ==
  /\ pc = "L80"
  /\ train_calls' = Append(train_calls, TrainArgs)
  /\ log' = Append(log, "sagemaker_train")
  /\ \E raises \in BOOLEAN : IF raises THEN Raise("DelegateError") ELSE Goto("exit_run")
  /\ UNCHANGED <<user_entry_point, world, locals, env_persisted, open_files, mlflow,
                 module_calls, exit_status>>

(***************************************************************************)
(* Leaving the scopes, and the end of the process                          *)
(***************************************************************************)
\* mutant: the end of the run replaces the exception passing through it
ExitRun_ReplacesError ==
  /\ pc = "exit_run"
  /\ mlflow' = [mlflow EXCEPT !.active_runs = @ - 1, !.ended = @ + 1]
  /\ log' = Append(log, "end_run")
  /\ pc' = "exit_f"
  /\ error' = IF error = NoError THEN error ELSE Error("MlflowException", "exit_run")
  /\ UNCHANGED <<user_entry_point, world, locals, env_persisted, open_files,
                 train_calls, module_calls, exit_status>>

\* the `with mlflow.start_run()` block of line 61 is left: the run is ended
ExitRun ==
  /\ pc = "exit_run"
  /\ mlflow' = EndRun(mlflow)
  /\ log' = Append(log, "end_run")
  /\ pc' = "exit_f"
  /\ UNCHANGED <<user_entry_point, world, locals, env_persisted, open_files,
                 train_calls, module_calls, error, exit_status>>

\* mutant: the exception is swallowed when run_algorithm_mode is left
AfterTrain_Swallow(err) == "L119"

\* where control goes when run_algorithm_mode is left
AfterTrain(err) == IF err = NoError THEN "L119" ELSE "raised"

\* the `with open(...) as f` block of line 51 is left: f is closed
ExitFile ==
  /\ pc = "exit_f"
  /\ open_files' = open_files \ {"train"}
  /\ log' = Append(log, "close_train_config")
  /\ pc' = AfterTrain(error)
  /\ UNCHANGED <<user_entry_point, world, locals, env_persisted, mlflow,
                 train_calls, module_calls, error, exit_status>>

\* line 119: sys.exit(0)
SysExit ==
  /\ pc = "L119"
  /\ exit_status' = "0"
  /\ pc' = "exited"
  /\ UNCHANGED <<user_entry_point, world, locals, effects, error, log>>

\* an exception leaves main: the interpreter ends the process with a non-zero code
Uncaught ==
  /\ pc = "raised"
  /\ exit_status' = "nonzero"
  /\ pc' = "exited"
  /\ UNCHANGED <<user_entry_point, world, locals, effects, error, log>>

Next ==
  \/ TrainingEnv
  \/ TrainDispatch
  \/ RunModule
  \/ WriteEnvVars
  \/ OpenTrainingConfig
  \/ LoadTrainingConfig
  \/ PopTrackingKeys
  \/ Validate
  \/ SetTrackingUri
  \/ SetExperiment
  \/ StartRun
  \/ LoadDataConfig
  \/ LoadCheckpointConfig
  \/ ResolveTrainPath
  \/ ResolveValPath
  \/ ResolveHosts
  \/ ResolveCurrentHost
  \/ ResolveModelDir
  \/ SagemakerTrain
  \/ ExitRun
  \/ ExitFile
  \/ SysExit
  \/ Uncaught

Spec == Init /\ [][Next]_vars

(***************************************************************************)
(* Properties                                                              *)
(***************************************************************************)
Raised == error.t = "error"
RaisedAt(line) == Raised /\ error.at = line
Loaded == files["train"].t = "json"
LoadedConfig == files["train"].doc
\* the loaded training configuration lacks at least one tracking key
TrackingKeyMissing == Loaded /\ ~(TrackingKeys \subseteq DOMAIN LoadedConfig)
\* validation (line 57) is behind
PastValidation == pc \notin {"L118", "L98", "L100", "L105", "L51", "L52", "L54", "L57"}
\* run_algorithm_mode is over
AfterScopes == {"L119", "raised", "exited"}
Left == pc \in AfterScopes

\* C1: a training configuration that lacks a tracking key makes the run fail with
\* UserError, raised by the validation of line 57, before the data configuration
\* or the checkpoint configuration is read.
C1_MissingKeyFailsValidation ==
  (TrackingKeyMissing /\ PastValidation) =>
    /\ RaisedAt("L57") /\ error.type = "UserError"
    /\ files["data"] = Unread /\ files["checkpoint"] = Unread
    /\ environ[SM_INPUT_DATA_CONFIG_FILE] = Unread
    /\ environ[SM_CHECKPOINT_CONFIG_FILE] = Unread

\* C2: with a tracking key missing, the tracking client's endpoint and experiment
\* are never set, no run is opened and sagemaker_train is never called; the
\* delegate never receives None as its model name.
C2_MisconfiguredRunHasNoEffects ==
  /\ TrackingKeyMissing =>
       /\ mlflow.uri = Unbound /\ mlflow.experiment = Unbound
       /\ mlflow.started = 0
       /\ train_calls = <<>>
  /\ \A i \in DOMAIN train_calls : ~IsNone(train_calls[i].modelName)

\* C3: a tracking run that was opened is ended exactly once on every way out of
\* its scope: at most one run is ever open, none is ended twice, and once the
\* scope is left no run is open.
C3_RunClosedExactlyOnce ==
  /\ mlflow.started <= 1
  /\ mlflow.ended <= mlflow.started
  /\ mlflow.active_runs + mlflow.ended = mlflow.started
  /\ (pc \in InRunScope \cup {"exit_run"}) => mlflow.active_runs = 1
  /\ (pc \in {"exit_f"} \cup AfterScopes) => (mlflow.ended = mlflow.started /\ mlflow.active_runs = 0)

\* a run was opened, the delegate raised, and the process is over
C3_Witness ==
  /\ pc = "exited" /\ RaisedAt("L80")
  /\ mlflow.started = 1 /\ mlflow.ended = 1

\* C4: the configuration given to sagemaker_train holds none of the three tracking
\* keys and every other key of the loaded configuration with its value; the
\* three values popped are the ones the loaded configuration held.
C4_TrackingKeysStripped ==
  /\ \A i \in DOMAIN train_calls :
       LET c == train_calls[i].train_config IN
       /\ DOMAIN c = DOMAIN LoadedConfig \ TrackingKeys
       /\ \A k \in DOMAIN c : c[k] = LoadedConfig[k]
  /\ (Loaded /\ pc # "L54") =>
       /\ DOMAIN train_config = DOMAIN LoadedConfig \ TrackingKeys
       /\ tracking_uri = DictPop(LoadedConfig, MLF_TRACKING_URI, None).value
       /\ experiment_name = DictPop(LoadedConfig, MLF_EXPERIMENT_NAME, None).value
       /\ model_name = DictPop(LoadedConfig, MLF_MODEL_NAME, None).value

\* the delegate was called from a configuration holding every key
C4_Witness ==
  /\ Len(train_calls) = 1
  /\ DOMAIN LoadedConfig = ConfigKeys
  /\ DOMAIN train_calls[1].train_config = HyperKeys

\* run_algorithm_mode has left no trace
OrchestratorUntouched ==
  /\ env_persisted = FALSE
  /\ \A n \in EnvNames : environ[n] = (IF n \in PathEnvNames THEN Unread ELSE Unset)
  /\ \A f \in FileNames : files[f] = Unread
  /\ open_files = {}
  /\ mlflow.uri = Unbound /\ mlflow.experiment = Unbound /\ mlflow.started = 0
  /\ train_calls = <<>>

\* C5: with user_entry_point set, train calls run_module exactly once, with
\* capture_error=False, and run_algorithm_mode never runs: nothing is persisted,
\* no configuration is read, the tracking client is untouched, the delegate is
\* not called.
C5_UserScriptOnly ==
  ~IsNone(user_entry_point) =>
    /\ OrchestratorUntouched
    /\ pc \in {"L118", "L98", "L100"} \cup AfterScopes
    /\ Len(module_calls) <= 1
    /\ \A i \in DOMAIN module_calls : module_calls[i].capture_error = FALSE
    /\ (pc \in AfterScopes /\ ~RaisedAt("L118")) => Len(module_calls) = 1

\* the user script ran and the process is over
C5_Witness ==
  /\ ~IsNone(user_entry_point) /\ pc = "exited"
  /\ Len(module_calls) = 1 /\ log = <<"run_module">>

\* C6: with user_entry_point unset, the environment is persisted before
\* run_algorithm_mode starts, run_module is never called, sagemaker_train is
\* called at most once and, when nothing fails, exactly once, and it receives the
\* host list SM_HOSTS encodes (same elements, same order) and the current host
\* SM_CURRENT_HOST holds.
C6_AlgorithmModeForwardsTopology ==
  IsNone(user_entry_point) =>
    /\ module_calls = <<>>
    /\ pc # "L100"
    /\ (pc \notin {"L118", "L98", "L105"} /\ ~RaisedAt("L118")) =>
         (env_persisted /\ log # <<>> /\ log[1] = "write_env_vars")
    /\ Len(train_calls) <= 1
    /\ \A i \in DOMAIN train_calls :
         /\ train_calls[i].sm_hosts.t = "list"
         /\ JsonDumps(train_calls[i].sm_hosts.items) = environ[SM_HOSTS].toks
         /\ train_calls[i].sm_current_host = environ[SM_CURRENT_HOST]
    /\ ((pc \in {"exit_run", "exit_f"} \cup AfterScopes) /\ (~Raised \/ RaisedAt("L80"))) =>
         Len(train_calls) = 1

\* algorithm mode ended well with a list of two different hosts
C6_Witness ==
  /\ IsNone(user_entry_point) /\ exit_status = "0"
  /\ Len(train_calls) = 1
  /\ train_calls[1].sm_hosts = List(<<"algo-2", "algo-1">>)
  /\ train_calls[1].sm_current_host = Str("algo-2")

\* C7: when SM_CHECKPOINT_CONFIG_FILE names a path where no file exists, the
\* checkpoint step raises nothing and the delegate, once called, receives an
\* empty checkpoint configuration.
C7_MissingCheckpointIsEmpty ==
  files["checkpoint"] = Missing =>
    /\ ~RaisedAt("L65")
    /\ checkpoint_config = EmptyDict
    /\ \A i \in DOMAIN train_calls : train_calls[i].checkpoint_config = EmptyDict
    /\ (exit_status = "0" \/ RaisedAt("L80")) => Len(train_calls) = 1

\* the delegate was called after the checkpoint file was found missing
C7_Witness ==
  /\ files["checkpoint"] = Missing /\ environ[SM_CHECKPOINT_CONFIG_FILE] # Unset
  /\ Len(train_calls) = 1 /\ exit_status = "0"

\* C8: when the checkpoint file exists and does not parse, run_algorithm_mode
\* fails there and sagemaker_train is never called.
C8_MalformedCheckpointFails ==
  files["checkpoint"] = Malformed =>
    /\ RaisedAt("L65") /\ error.type = "JSONDecodeError"
    /\ pc \in {"exit_run", "exit_f", "raised", "exited"}
    /\ checkpoint_config = Unbound
    /\ train_calls = <<>>
    /\ exit_status # "0"

\* the run failed on a malformed checkpoint file, after its run was ended
C8_Witness ==
  /\ files["checkpoint"] = Malformed /\ pc = "exited"
  /\ mlflow.ended = 1

\* the line that reads each environment variable, and the lines after it
LineOf(name) ==
  CASE name = SM_CHANNEL_TRAIN -> "L72"
    [] name = SM_HOSTS -> "L75"
    [] name = SM_CURRENT_HOST -> "L76"
    [] name = SM_MODEL_DIR -> "L78"
RunLines == <<"L62", "L65", "L72", "L73", "L75", "L76", "L78", "L80">>
LinesAfter(line) ==
  {RunLines[j] : j \in {i \in DOMAIN RunLines : \E k \in 1..(i - 1) : RunLines[k] = line}}

\* with variable `name` absent from the environment run_algorithm_mode starts
\* with, control never passes the line that reads it: a KeyError is raised
\* there, the delegate is never called and the process does not end with code 0
FailsWhenUnset(name) ==
  (env_persisted /\ environ[name] = Unset) =>
    /\ pc \notin LinesAfter(LineOf(name))
    /\ RaisedAt(LineOf(name)) => error.type = "KeyError"
    /\ train_calls = <<>>
    /\ (pc \in {"exit_run", "exit_f"} \cup AfterScopes) => Raised

\* C9 as stated: each of the four variables (training channel, model directory,
\* host list, current host), when absent, fails the run at once with a
\* missing-variable error and the delegate is never called.
C9_FourRequiredVariables ==
  \A name \in {SM_CHANNEL_TRAIN, SM_MODEL_DIR, SM_HOSTS, SM_CURRENT_HOST} :
    FailsWhenUnset(name)

\* C9 amended: the training channel, the host list and the current host, when
\* absent, fail the run with KeyError at the line that reads them and the
\* delegate is never called; an absent model directory raises nothing and is
\* forwarded to the delegate as None.
C9_ThreeRequiredVariables ==
  /\ \A name \in {SM_CHANNEL_TRAIN, SM_HOSTS, SM_CURRENT_HOST} : FailsWhenUnset(name)
  /\ (env_persisted /\ environ[SM_MODEL_DIR] = Unset) =>
       /\ ~RaisedAt("L78")
       /\ pc = "L80" => IsNone(model_dir)
       /\ \A i \in DOMAIN train_calls : IsNone(train_calls[i].model_dir)

\* the run died on an absent training channel, and its tracking run was ended
C9_Witness ==
  /\ environ[SM_CHANNEL_TRAIN] = Unset /\ RaisedAt("L72")
  /\ pc = "exited" /\ mlflow.ended = 1

\* C10: main reaches sys.exit(0) exactly when the dispatch path it took ended
\* without raising; once anything has raised, the exit-0 step is never reached
\* and the exception leaves main.
C10_ExitZeroIffNoError ==
  /\ (pc = "L119" \/ exit_status = "0") =>
       /\ ~Raised
       /\ Len(module_calls) + Len(train_calls) = 1
       /\ mlflow.active_runs = 0 /\ open_files = {}
  /\ Raised => (pc # "L119" /\ exit_status # "0")
  /\ pc = "exited" => exit_status = (IF Raised THEN "nonzero" ELSE "0")
  /\ pc # "exited" => exit_status = "running"

\* both ends: algorithm mode ended with code 0
C10_Witness ==
  /\ exit_status = "0" /\ pc = "exited"
  /\ Len(train_calls) = 1 /\ log[Len(log)] = "close_train_config"

\* C11: an exception raised by run_module or by sagemaker_train is never caught,
\* replaced or wrapped: from the step that raises it to the end of the process
\* the propagating exception stays the one that was raised, it ends the process
\* with a non-zero code, and in algorithm mode it leaves run_algorithm_mode only
\* after the tracking run was ended.
C11_DelegateErrorsPropagate ==
  [][/\ Raised => (error' = error /\ pc' \notin {"L119"} /\ exit_status' # "0")
     /\ (pc = "L80" /\ error'.t = "error") => error' = Error("DelegateError", "L80")
     /\ (pc = "L100" /\ error'.t = "error") =>
          (error' = Error("ModuleError", "L100") /\ pc' = "raised")
     /\ (error'.t = "error" /\ error'.at = "L80" /\ pc' \in AfterScopes) =>
          (mlflow'.active_runs = 0 /\ mlflow'.ended = 1 /\ open_files' = {})
    ]_vars

\* the delegate's exception ended the process, after the run was ended and the
\* training configuration closed
C11_Witness ==
  /\ error = Error("DelegateError", "L80") /\ exit_status = "nonzero"
  /\ Len(log) >= 2 /\ log[Len(log) - 1] = "end_run" /\ log[Len(log)] = "close_train_config"

\* the place of each external effect in run_algorithm_mode
Rank(event) ==
  CASE event = "write_env_vars" -> 0
    [] event = "open_train_config" -> 1
    [] event = "load_train_config" -> 2
    [] event = "set_tracking_uri" -> 3
    [] event = "set_experiment" -> 4
    [] event = "start_run" -> 5
    [] event = "read_data_config" -> 6
    [] event = "read_checkpoint_config" -> 7
    [] event = "sagemaker_train" -> 8
    [] event = "end_run" -> 9
    [] event = "close_train_config" -> 10
    [] OTHER -> 11
Happened(event) == \E i \in DOMAIN log : log[i] = event
JobLocals == <<train_path, val_path, sm_hosts, sm_current_host, model_dir>>

\* C12: in algorithm mode the steps come in the order (1) load the training
\* configuration, (2) pop and validate the tracking parameters, (3) set the
\* endpoint, set the experiment, open the run, (4) load the data configuration,
\* (5) load the checkpoint configuration, (6) resolve paths and topology from
\* the environment, (7) call sagemaker_train; a step starts only once the one
\* before it is done, and steps 4-7 run only with the tracking run open.
C12_StrictStepOrder ==
  IsNone(user_entry_point) =>
    /\ \A i, j \in DOMAIN log : i < j => Rank(log[i]) < Rank(log[j])
    \* 2 after 1
    /\ tracking_uri # Unbound => (Loaded /\ train_config # Unbound)
    \* 3 after 2
    /\ (Happened("set_tracking_uri") \/ pc \in {"L58", "L59", "L61"}) =>
         /\ tracking_uri # Unbound /\ experiment_name # Unbound /\ model_name # Unbound
         /\ ~RaisedAt("L57")
    /\ Happened("set_experiment") => Happened("set_tracking_uri")
    /\ Happened("start_run") => Happened("set_experiment")
    \* 4 after 3
    /\ (environ[SM_INPUT_DATA_CONFIG_FILE] # Unread \/ files["data"] # Unread) =>
         (Happened("start_run") /\ mlflow.started = 1)
    \* 5 after 4
    /\ (environ[SM_CHECKPOINT_CONFIG_FILE] # Unread \/ files["checkpoint"] # Unread) =>
         data_config # Unbound
    \* 6 after 5
    /\ ((\E k \in DOMAIN JobLocals : JobLocals[k] # Unbound)
          \/ pc \in {"L72", "L73", "L75", "L76", "L78"}
          \/ \E l \in {"L72", "L75", "L76"} : RaisedAt(l)) =>
         checkpoint_config # Unbound
    \* 7 after 6
    /\ (train_calls # <<>> \/ pc = "L80") =>
         \A k \in DOMAIN JobLocals : JobLocals[k] # Unbound
    \* 4-7 inside the run
    /\ pc \in InRunScope => (mlflow.active_runs = 1 /\ ~Happened("end_run"))
    /\ \A i \in DOMAIN log :
         log[i] \in {"read_data_config", "read_checkpoint_config", "sagemaker_train"} =>
           /\ \E j \in 1..(i - 1) : log[j] = "start_run"
           /\ \A j \in 1..(i - 1) : log[j] # "end_run"

\* all seven steps ran, in order
C12_Witness ==
  log = <<"write_env_vars", "open_train_config", "load_train_config", "set_tracking_uri",
          "set_experiment", "start_run", "read_data_config", "read_checkpoint_config",
          "sagemaker_train", "end_run", "close_train_config">>

\* the tracking run has been acquired
ScopeAcquired == mlflow.started = 1 /\ Happened("start_run")
\* file f has been looked up, opened or read
FileTouched(f) == files[f] # Unread
\* the line at which each file is opened and loaded
LoadLines(f) ==
  CASE f = "train" -> {"L51", "L52"} [] f = "data" -> {"L62"} [] f = "checkpoint" -> {"L65"}

\* C13 as stated: none of the three configuration files is touched before the
\* tracking run is acquired, and none of the three loads fails before it is.
C13_NoConfigIoBeforeScope ==
  \A f \in FileNames :
    /\ FileTouched(f) => ScopeAcquired
    /\ (\E l \in LoadLines(f) : RaisedAt(l)) => ScopeAcquired

\* C13 amended: the data and checkpoint configuration files are touched only
\* after the tracking run is acquired, and their loads fail only with the run
\* open; the training configuration is read before the run is acquired, and a
\* failure of its load leaves no run acquired.
C13_DataAndCheckpointIoInsideScope ==
  /\ \A f \in {"data", "checkpoint"} :
       /\ FileTouched(f) => ScopeAcquired
       /\ (\E l \in LoadLines(f) : RaisedAt(l)) =>
            (ScopeAcquired /\ (pc = "exit_run" => mlflow.active_runs = 1))
  /\ Happened("start_run") => (Loaded /\ Happened("load_train_config"))
  /\ (\E l \in LoadLines("train") : RaisedAt(l)) => (mlflow.started = 0 /\ ~Happened("start_run"))

\* the data configuration did not parse: the failure came with the run open,
\* and the run was ended
C13_Witness ==
  /\ files["data"] = Malformed /\ RaisedAt("L62")
  /\ pc = "exit_f" /\ mlflow.started = 1 /\ mlflow.ended = 1

\* the tracking client m has exactly one run open, opened on the endpoint and
\* experiment the training configuration gave
OneRunOnExtractedTarget(m) ==
  /\ m.active_runs = 1 /\ m.started = 1 /\ m.ended = 0
  /\ m.uri = DictPop(LoadedConfig, MLF_TRACKING_URI, None).value
  /\ m.experiment = DictPop(LoadedConfig, MLF_EXPERIMENT_NAME, None).value

\* C14: whenever sagemaker_train runs, exactly one tracking run is open, and it
\* was opened after the client's endpoint and experiment were set to the values
\* popped from the training configuration.
C14_DelegateRunsInsideOneRun ==
  /\ pc = "L80" => OneRunOnExtractedTarget(mlflow)
  /\ \A i \in DOMAIN train_calls : OneRunOnExtractedTarget(train_calls[i].mlflowClient)
  /\ \A k \in DOMAIN log :
       log[k] = "start_run" =>
         /\ \E i, j \in 1..(k - 1) :
              i < j /\ log[i] = "set_tracking_uri" /\ log[j] = "set_experiment"
         /\ \A j \in DOMAIN log : (log[j] = "start_run" => j = k)
         /\ \A j \in (k + 1)..Len(log) : log[j] \notin {"set_tracking_uri", "set_experiment"}

\* the delegate was called inside a run opened on the configured endpoint and experiment
C14_Witness ==
  /\ Len(train_calls) = 1
  /\ train_calls[1].mlflowClient.uri = ValueOf(MLF_TRACKING_URI)
  /\ train_calls[1].mlflowClient.experiment = ValueOf(MLF_EXPERIMENT_NAME)
  /\ train_calls[1].mlflowClient.active_runs = 1

\* no checkpoint configuration is available: the variable naming its path is
\* not set, or no file exists at the path
CheckpointAbsent ==
  environ[SM_CHECKPOINT_CONFIG_FILE] = Unset \/ files["checkpoint"] = Missing

\* C15: whenever no checkpoint configuration is available, the variable naming
\* its path being unset included, the checkpoint step raises nothing and yields
\* an empty mapping.
C15_AbsentCheckpointNeverFails ==
  CheckpointAbsent => (~RaisedAt("L65") /\ checkpoint_config = EmptyDict)

\* what line 73 makes of SM_CHANNEL_VALIDATION
ForwardedValPath ==
  IF environ[SM_CHANNEL_VALIDATION] = Unset THEN None ELSE environ[SM_CHANNEL_VALIDATION]

\* C16: an absent SM_CHANNEL_VALIDATION raises nothing; when nothing else fails
\* sagemaker_train is still called exactly once and receives None as val_path;
\* a value that is present is forwarded unchanged.
C16_ValidationChannelOptional ==
  env_persisted =>
    /\ ~RaisedAt("L73")
    /\ val_path # Unbound => val_path = ForwardedValPath
    /\ Len(train_calls) <= 1
    /\ \A i \in DOMAIN train_calls : train_calls[i].val_path = ForwardedValPath
    /\ (/\ environ[SM_CHANNEL_VALIDATION] = Unset
        /\ pc \in {"exit_run", "exit_f"} \cup AfterScopes
        /\ (~Raised \/ RaisedAt("L80"))) =>
         (Len(train_calls) = 1 /\ IsNone(train_calls[1].val_path))

\* algorithm mode ended well without a validation channel
C16_Witness ==
  /\ environ[SM_CHANNEL_VALIDATION] = Unset /\ exit_status = "0"
  /\ Len(train_calls) = 1 /\ IsNone(train_calls[1].val_path)
  /\ train_calls[1].train_path = Str("/opt/ml/SM_CHANNEL_TRAIN")

\* C17: a training configuration file that does not exist or does not parse
\* makes run_algorithm_mode fail at its first step: the tracking client is not
\* configured, no run is opened, neither the data nor the checkpoint
\* configuration is read, and sagemaker_train is never called.
C17_BadTrainingConfigFailsFirst ==
  files["train"] \in {Missing, Malformed} =>
    /\ Raised
    /\ error.at = (IF files["train"] = Missing THEN "L51" ELSE "L52")
    /\ error.type = (IF files["train"] = Missing THEN "FileNotFoundError" ELSE "JSONDecodeError")
    /\ pc \in {"exit_f", "raised", "exited"}
    /\ train_config = Unbound /\ tracking_uri = Unbound
    /\ mlflow.uri = Unbound /\ mlflow.experiment = Unbound /\ mlflow.started = 0
    /\ \A f \in {"data", "checkpoint"} : files[f] = Unread
    /\ environ[SM_INPUT_DATA_CONFIG_FILE] = Unread
    /\ environ[SM_CHECKPOINT_CONFIG_FILE] = Unread
    /\ train_calls = <<>>
    /\ exit_status # "0"

\* the training configuration did not parse and the process ended
C17_Witness ==
  /\ files["train"] = Malformed /\ exit_status = "nonzero"
  /\ log = <<"write_env_vars", "open_train_config", "load_train_config", "close_train_config">>

\* C18: the two scopes nest and unwind last-in-first-out: the handle of the
\* training configuration is open from line 51 to the end of the with block,
\* through the whole tracking run and the delegate call; the run is ended before
\* the handle is closed; once run_algorithm_mode is left, on any path, neither
\* a handle nor a run is open.
C18_ScopesNestLifo ==
  /\ pc \in InFileScope \cup InRunScope \cup {"exit_run", "exit_f"} => open_files = {"train"}
  /\ pc \in {"L118", "L98", "L100", "L105", "L51"} \cup AfterScopes => open_files = {}
  /\ mlflow.active_runs > 0 => open_files = {"train"}
  /\ pc \in AfterScopes =>
       /\ mlflow.active_runs = 0
       /\ Happened("open_train_config") => Happened("close_train_config")
       /\ Happened("start_run") => Happened("end_run")
  /\ \A j \in DOMAIN log :
       log[j] = "close_train_config" =>
         /\ \A i \in DOMAIN log : log[i] = "end_run" => i < j
         /\ Happened("start_run") => Happened("end_run")
         /\ \A i \in DOMAIN log : log[i] = "sagemaker_train" => i < j

\* a missing training channel unwound both scopes, the run first
C18_Witness ==
  /\ RaisedAt("L72") /\ pc = "raised" /\ open_files = {}
  /\ log[Len(log) - 1] = "end_run" /\ log[Len(log)] = "close_train_config"

====
